---------------------------- MODULE Spec2Model ----------------------------
(***************************************************************************)
(* pandoc/lib/reader_generator.py: a module-level loop that renders one    *)
(* Lua reader per pandoc input format from a shared template and writes it *)
(* to ../readers/<format>.lua with pathlib.Path.write_text.                *)
(*                                                                         *)
(* Strings are sequences of one-character strings, so that str.replace,    *)
(* the f-string that builds the path and the file contents are computed    *)
(* character by character.  The filesystem is a function from the paths    *)
(* that exist to their contents.                                           *)
(***************************************************************************)
EXTENDS Integers, Sequences, FiniteSets, TLC

VARIABLES
    template,    \* the template string the loop substitutes into
    dirState,    \* what ../readers is: "dir", "missing" or "notdir"
    mode,        \* per registry index: "ok", "perm" (open is refused) or "nospace" (the flush fails)
    fs,          \* the filesystem: path -> content, for the paths that exist
    fs0,         \* history: the filesystem before the first run
    start,       \* history: the filesystem when the current run started
    prevPc,      \* history: how the previous run ended ("none" for the first run)
    intAt,       \* history: the pc at which the current run was interrupted
    i,           \* the loop's position in the registry, 1-based
    pc,          \* "loop", "opened", "done", "failed", "interrupted", "par"
    run,         \* number of the current run of the script
    exitStatus,  \* "running", "0", "1" or "signal"
    stderr,      \* what the interpreter printed: one record per traceback
    pending,     \* any-order pass: registry indices whose step has not started
    inflight,    \* any-order pass: registry indices opened and not yet written
    order        \* any-order pass: the indices in the order their writes completed

vars == <<template, dirState, mode, fs, fs0, start, prevPc, intAt, i, pc, run,
          exitStatus, stderr, pending, inflight, order>>

---------------------------------------------------------------------------
(* Bounds *)

\* how many of the registry's identifiers a run iterates over
NumFormats == 3

\* how many times the script is run in a row
MaxRuns == 2

---------------------------------------------------------------------------
(* Program data *)

\* formats = [...]
formats ==
    << <<"c", "o", "m", "m", "o", "n", "m", "a", "r", "k">>,
       <<"c", "o", "m", "m", "o", "n", "m", "a", "r", "k", "_", "x">>,
       <<"g", "f", "m">>,
       <<"m", "a", "r", "k", "d", "o", "w", "n">>,
       <<"m", "a", "r", "k", "d", "o", "w", "n", "_", "m", "m", "d">>,
       <<"m", "a", "r", "k", "d", "o", "w", "n", "_", "p", "h", "p", "e", "x", "t", "r", "a">>,
       <<"m", "a", "r", "k", "d", "o", "w", "n", "_", "s", "t", "r", "i", "c", "t">>,
       <<"l", "a", "t", "e", "x">>,
       <<"o", "r", "g">>,
       <<"r", "s", "t">>,
       <<"t", "e", "x", "t", "i", "l", "e">> >>

\* the prefix of formats a bounded run iterates over, in declaration order
Registry == SubSeq(formats, 1, NumFormats)

\* '<format>', the first argument of template.replace
placeholder == <<"<", "f", "o", "r", "m", "a", "t", ">">>

\* The template's one line that holds the placeholder: local format = '<format>'
\* The template's other lines hold no "<" and pass through replace unchanged.
templateLine ==
    <<"l", "o", "c", "a", "l", " ", "f", "o", "r", "m", "a", "t", " ", "=", " ",
      "'", "<", "f", "o", "r", "m", "a", "t", ">", "'", "\n">>

\* The template strings a run is started with: the source's own line, one
\* with no placeholder (a near miss "<format" only), one with two adjacent
\* occurrences wrapped in stray brackets, and one whose placeholder sits
\* inside a broken placeholder.
Templates ==
    { templateLine,
      <<"'", "<", "f", "o", "r", "m", "a", "t", "'", "\n">>,
      <<"<", "<", "f", "o", "r", "m", "a", "t", ">", "<", "f", "o", "r", "m", "a", "t", ">", ">">>,
      <<"<", "f", "o", "r", "<", "f", "o", "r", "m", "a", "t", ">", "m", "a", "t", ">">> }

\* str.replace(old, new) for a non-empty old: every non-overlapping
\* occurrence, scanning from the left, in one pass
RECURSIVE replace(_, _, _)
replace(s, old, new) ==
    IF Len(s) < Len(old) THEN s
    ELSE IF SubSeq(s, 1, Len(old)) = old
         THEN new \o replace(SubSeq(s, Len(old) + 1, Len(s)), old, new)
         ELSE <<Head(s)>> \o replace(Tail(s), old, new)

\* str.replace(old, new, 1): the first occurrence only
RECURSIVE replace_first(_, _, _)
replace_first(s, old, new) ==
    IF Len(s) < Len(old) THEN s
    ELSE IF SubSeq(s, 1, Len(old)) = old
         THEN new \o SubSeq(s, Len(old) + 1, Len(s))
         ELSE <<Head(s)>> \o replace_first(Tail(s), old, new)

\* a render that substitutes the first occurrence only
render_first(t, format) == replace_first(t, placeholder, format)

\* template.replace('<format>', format)
render(t, format) == replace(t, placeholder, format)

\* a path that does not interpolate the identifier: '../readers/format.lua'
file_path_fixed(format) ==
    <<".", ".", "/", "r", "e", "a", "d", "e", "r", "s", "/">>
        \o <<"f", "o", "r", "m", "a", "t">> \o <<".", "l", "u", "a">>

\* pathlib.Path(f'../readers/{format}.lua')
file_path(format) ==
    <<".", ".", "/", "r", "e", "a", "d", "e", "r", "s", "/">>
        \o format \o <<".", "l", "u", "a">>

\* the paths the loop writes
RegistryPaths == { file_path(Registry[k]) : k \in 1..NumFormats }

\* a file of the output directory the loop has no identifier for
otherFile ==
    <<".", ".", "/", "r", "e", "a", "d", "e", "r", "s", "/">>
        \o <<"n", "o", "t", "e", "s", ".", "t", "x", "t">>

\* what an output file left by an earlier version of the generator holds
stale == <<"-", "-", " ", "o", "l", "d", "\n">>

---------------------------------------------------------------------------
(* pathlib.Path.write_text: open(mode='w'), write, close *)

\* an open that refuses nothing on account of the directory
open_error_nodircheck(ds, m) ==
    IF m = "perm" THEN "PermissionError" ELSE "ok"

\* open(path, 'w'): the error it raises, or "ok"
open_error(ds, m) ==
    IF ds = "missing" THEN "FileNotFoundError"
    ELSE IF ds = "notdir" THEN "NotADirectoryError"
    ELSE IF m = "perm" THEN "PermissionError"
    ELSE "ok"

\* an open in append mode: the file keeps what it holds
open_append(f, p) ==
    [q \in DOMAIN f \cup {p} |-> IF q = p /\ p \notin DOMAIN f THEN <<>> ELSE f[q]]

\* an open that empties the whole directory before creating the file
open_clean(f, p) == [q \in {p} |-> <<>>]

\* open(path, 'w') when it succeeds: the file is created or truncated
open_w(f, p) ==
    [q \in DOMAIN f \cup {p} |-> IF q = p THEN <<>> ELSE f[q]]

\* f.write(data) and the flush on close, on a handle positioned at the end
\* of the file it opened (offset 0 after a truncating open)
write_data(f, p, data) ==
    [q \in DOMAIN f \cup {p} |->
        IF q = p THEN (IF p \in DOMAIN f THEN f[p] ELSE <<>>) \o data ELSE f[q]]

\* the traceback of an uncaught OSError: open's errors carry the file name,
\* a failed write or flush does not
Traceback(kind, filename) == [kind |-> kind, filename |-> filename]

NoName == <<>>

---------------------------------------------------------------------------
(* The script *)

\* per output path: whether an earlier generation left a file there
FileStates == [RegistryPaths -> BOOLEAN]

\* the filesystem built from a choice of stale/absent per output path
MkFs(choice) ==
    [q \in { p \in RegistryPaths : choice[p] } \cup {otherFile} |->
        IF q = otherFile THEN <<"k", "e", "e", "p", "\n">> ELSE stale]

InitCommon ==
    /\ template \in Templates
    /\ dirState \in {"dir", "missing", "notdir"}
    /\ \/ /\ dirState = "dir"
          /\ mode \in [1..NumFormats -> {"ok", "perm", "nospace"}]
          /\ \E choice \in FileStates : fs = MkFs(choice)
       \/ /\ dirState # "dir"
          /\ mode = [k \in 1..NumFormats |-> "ok"]
          /\ fs = << >>
    /\ fs0 = fs
    /\ start = fs
    /\ prevPc = "none"
    /\ intAt = "none"
    /\ i = 1
    /\ run = 1
    /\ exitStatus = "running"
    /\ stderr = << >>
    /\ order = << >>
    /\ inflight = {}

Init ==
    /\ InitCommon
    /\ pc = "loop"
    /\ pending = {}

histvars == <<template, dirState, mode, fs0, pending, inflight, order>>

\* the uncaught exception ends the script: traceback on stderr, status 1
Raise(tb) ==
    /\ pc' = "failed"
    /\ exitStatus' = "1"
    /\ stderr' = Append(stderr, tb)

\* for format in formats: ... open(file_path, 'w') raises
OpenFails ==
    /\ pc = "loop"
    /\ i <= NumFormats
    /\ open_error(dirState, mode[i]) # "ok"
    /\ Raise(Traceback(open_error(dirState, mode[i]), file_path(Registry[i])))
    /\ UNCHANGED <<fs, i, run, start, prevPc, intAt>>
    /\ UNCHANGED histvars

\* for format in formats: ... open(file_path, 'w') creates or truncates the file
OpenOk ==
    /\ pc = "loop"
    /\ i <= NumFormats
    /\ open_error(dirState, mode[i]) = "ok"
    /\ fs' = open_w(fs, file_path(Registry[i]))
    /\ pc' = "opened"
    /\ UNCHANGED <<i, run, start, prevPc, intAt, exitStatus, stderr>>
    /\ UNCHANGED histvars

\* f.write(template.replace('<format>', format)) and close; next iteration
WriteOk ==
    /\ pc = "opened"
    /\ mode[i] # "nospace"
    /\ fs' = write_data(fs, file_path(Registry[i]), render(template, Registry[i]))
    /\ i' = i + 1
    /\ pc' = "loop"
    /\ UNCHANGED <<run, start, prevPc, intAt, exitStatus, stderr>>
    /\ UNCHANGED histvars

\* the flush on close raises OSError(ENOSPC): nothing reaches the file
WriteFails ==
    /\ pc = "opened"
    /\ mode[i] = "nospace"
    /\ Raise(Traceback("OSError", NoName))
    /\ UNCHANGED <<fs, i, run, start, prevPc, intAt>>
    /\ UNCHANGED histvars

\* the loop is exhausted: the script ends, status 0, nothing printed
Finish ==
    /\ pc = "loop"
    /\ i > NumFormats
    /\ pc' = "done"
    /\ exitStatus' = "0"
    /\ UNCHANGED <<fs, i, run, start, prevPc, intAt, stderr>>
    /\ UNCHANGED histvars

\* the process is killed between two steps of the loop
Interrupt ==
    /\ pc \in {"loop", "opened"}
    /\ intAt' = pc
    /\ pc' = "interrupted"
    /\ exitStatus' = "signal"
    /\ UNCHANGED <<fs, i, run, start, prevPc, stderr>>
    /\ UNCHANGED histvars

\* a rerun that takes the identifier the last run stopped at as written and
\* resumes after it, instead of starting over
RerunSkip ==
    /\ pc \in {"done", "failed", "interrupted"}
    /\ run < MaxRuns
    /\ run' = run + 1
    /\ prevPc' = pc
    /\ start' = fs
    /\ intAt' = "none"
    /\ pc' = "loop"
    /\ exitStatus' = "running"
    /\ stderr' = << >>
    /\ i' = i + 1
    /\ UNCHANGED fs
    /\ UNCHANGED histvars

\* the script is run again on the filesystem the last run left
Rerun ==
    /\ pc \in {"done", "failed", "interrupted"}
    /\ run < MaxRuns
    /\ run' = run + 1
    /\ prevPc' = pc
    /\ start' = fs
    /\ intAt' = "none"
    /\ i' = 1
    /\ pc' = "loop"
    /\ exitStatus' = "running"
    /\ stderr' = << >>
    /\ UNCHANGED fs
    /\ UNCHANGED histvars

Next ==
    \/ OpenFails
    \/ OpenOk
    \/ WriteOk
    \/ WriteFails
    \/ Finish
    \/ Interrupt
    \/ Rerun

Spec == Init /\ [][Next]_vars

---------------------------------------------------------------------------
(* The loop as a function: the filesystem an uninterrupted pass over the   *)
(* registry, from index k on in declaration order, leaves behind.  The     *)
(* first exception ends the pass.                                          *)

RECURSIVE RunFrom(_, _)
RunFrom(f, k) ==
    IF k > NumFormats THEN f
    ELSE IF open_error(dirState, mode[k]) # "ok" THEN f
    ELSE LET p == file_path(Registry[k])
             g == open_w(f, p)
         IN  IF mode[k] = "nospace" THEN g
             ELSE RunFrom(write_data(g, p, render(template, Registry[k])), k + 1)

---------------------------------------------------------------------------
(* The same (render, write) steps taken in any order and interleaving: one *)
(* task per identifier, each an open followed by a write, in an            *)
(* environment where no write fails.                                       *)

InitAnyOrder ==
    /\ InitCommon
    /\ dirState = "dir"
    /\ mode = [k \in 1..NumFormats |-> "ok"]
    /\ pc = "par"
    /\ pending = 1..NumFormats

TaskOpen ==
    \E j \in pending :
        /\ pc = "par"
        /\ fs' = open_w(fs, file_path(Registry[j]))
        /\ pending' = pending \ {j}
        /\ inflight' = inflight \cup {j}
        /\ UNCHANGED <<template, dirState, mode, fs0, start, prevPc, intAt, i, pc,
                       run, exitStatus, stderr, order>>

TaskWrite ==
    \E j \in inflight :
        /\ pc = "par"
        /\ fs' = write_data(fs, file_path(Registry[j]), render(template, Registry[j]))
        /\ inflight' = inflight \ {j}
        /\ order' = Append(order, j)
        /\ UNCHANGED <<template, dirState, mode, fs0, start, prevPc, intAt, i, pc,
                       run, exitStatus, stderr, pending>>

NextAnyOrder ==
    \/ TaskOpen
    \/ TaskWrite

SpecAnyOrder == InitAnyOrder /\ [][NextAnyOrder]_vars

---------------------------------------------------------------------------
(* Properties *)

\* the start positions of the placeholder's occurrences in t (the
\* placeholder starts with "<" and ends with ">", so no two overlap)
Matches(t) ==
    { k \in 1..(Len(t) - Len(placeholder) + 1) :
        SubSeq(t, k, k + Len(placeholder) - 1) = placeholder }

\* c is t with every occurrence of the placeholder replaced by f and every
\* other character kept, in order; in particular
\* Len(c) = Len(t) + occurrences * (Len(f) - Len(placeholder))
IsSubstitution(t, f, c) ==
    LET M == Matches(t)
        d == Len(f) - Len(placeholder)
        Before(k) == Cardinality({ m \in M : m < k })
        Inside(k) == \E m \in M : m <= k /\ k < m + Len(placeholder)
    IN  /\ Len(c) = Len(t) + Cardinality(M) * d
        /\ \A k \in 1..Len(t) : ~Inside(k) => c[k + d * Before(k)] = t[k]
        /\ \A m \in M :
              SubSeq(c, m + d * Before(m), m + d * Before(m) + Len(f) - 1) = f

PathOf(k) == file_path(Registry[k])

Rendered(k) ==
    /\ PathOf(k) \in DOMAIN fs
    /\ fs[PathOf(k)] = render(template, Registry[k])

Ended == pc \in {"done", "failed"}

\* C1: after a run that completes without a write failure, every
\* identifier's file exists at ../readers/<identifier>.lua and holds the
\* template with every occurrence of the placeholder replaced by the
\* identifier and every other character unchanged.
C1_AllFilesRendered ==
    pc = "done" =>
        \A k \in 1..NumFormats :
            /\ PathOf(k) \in DOMAIN fs
            /\ IsSubstitution(template, Registry[k], fs[PathOf(k)])

C1_Witness ==
    /\ pc = "done"
    /\ run = 1
    /\ Cardinality(Matches(template)) = 2
    /\ PathOf(1) \in DOMAIN fs0
    /\ PathOf(2) \notin DOMAIN fs0

\* C2: if the write of exactly one identifier fails, then when the run has
\* ended every other identifier's file is correctly written and exactly one
\* failure is reported.
C2_PartialFailureIsolation ==
    ( /\ Ended
      /\ dirState = "dir"
      /\ Cardinality({ k \in 1..NumFormats : mode[k] # "ok" }) = 1 )
    => /\ \A k \in 1..NumFormats : mode[k] = "ok" => Rendered(k)
       /\ Len(stderr) = 1

\* C3: at every instant every output file is absent or holds its complete
\* content from before the run, or holds the complete rendered content;
\* never an empty or truncated intermediate.
C3_AtomicReplacement ==
    \A k \in 1..NumFormats :
        IF PathOf(k) \in DOMAIN fs
        THEN \/ fs[PathOf(k)] = render(template, Registry[k])
             \/ PathOf(k) \in DOMAIN start /\ fs[PathOf(k)] = start[PathOf(k)]
        ELSE PathOf(k) \notin DOMAIN start

\* C4: the run ends with status 0 exactly when every identifier's file was
\* written; a run that a write failure ended has a non-zero status, names
\* the failed identifier's file in what it reports, and leaves the files
\* written before the failure in place with their rendered content.
C4_ExitBehaviour ==
    Ended =>
        /\ exitStatus = "0" <=> \A k \in 1..NumFormats : Rendered(k)
        /\ pc = "failed" =>
              /\ exitStatus # "0"
              /\ \E n \in 1..Len(stderr) : stderr[n].filename = PathOf(i)
              /\ \A k \in 1..(i - 1) : Rendered(k)

\* C5: a second run, in succession to a first one that ran to its end,
\* leaves the filesystem exactly as the first one left it.
C5_Idempotent ==
    (run >= 2 /\ prevPc \in {"done", "failed"} /\ Ended) => fs = start

C5_Witness ==
    /\ run = 2
    /\ pc = "done"
    /\ prevPc = "done"
    /\ PathOf(1) \in DOMAIN fs0
    /\ PathOf(2) \notin DOMAIN fs0

\* one step of the script changes at most the file of the identifier the
\* loop is at, never the template, and the write leaves exactly the
\* rendered content in that file
FrameStep ==
    /\ template' = template
    /\ fs' # fs =>
          /\ pc \in {"loop", "opened"}
          /\ i <= NumFormats
          /\ \A q \in (DOMAIN fs \cup DOMAIN fs') \ {PathOf(i)} :
                q \in DOMAIN fs /\ q \in DOMAIN fs' /\ fs'[q] = fs[q]
    /\ (pc = "opened" /\ pc' = "loop") =>
          fs'[PathOf(i)] = render(template, Registry[i])

\* whatever runs have happened, the files that no registry identifier
\* names are as they were before the first run
FrameRun ==
    \A q \in (DOMAIN fs \cup DOMAIN fs0) \ RegistryPaths :
        q \in DOMAIN fs /\ q \in DOMAIN fs0 /\ fs[q] = fs0[q]

\* C6: each emit step creates or fully overwrites exactly the one file at
\* the identifier's path and leaves every other file and the template
\* unchanged; a whole run changes only files at registry paths.
C6_Frame == [][FrameStep]_vars /\ []FrameRun

C6_Witness ==
    /\ pc = "done"
    /\ otherFile \in DOMAIN fs
    /\ fs # fs0
    /\ PathOf(1) \in DOMAIN fs0
    /\ PathOf(2) \notin DOMAIN fs0

AllTasksDone == pc = "par" /\ pending = {} /\ inflight = {}

\* C7: the registry's identifiers map to pairwise distinct paths, and when
\* the per-identifier steps have all been taken, in whatever order and
\* interleaving, the filesystem equals the one the sequential
\* declaration-order pass produces.
C7_OrderIndependent ==
    /\ Cardinality({ file_path(formats[k]) : k \in 1..Len(formats) }) = Len(formats)
    /\ AllTasksDone => fs = RunFrom(fs0, 1)

C7_Witness ==
    /\ AllTasksDone
    /\ order[1] = NumFormats
    /\ order[NumFormats] = 1
    /\ fs # fs0

\* C8: when a run is interrupted, the files of the identifiers the loop has
\* passed hold their complete rendered content and the files of the
\* identifiers it has not started are as they were when the run started;
\* and a run that reaches its end, whether the first one or one that
\* follows an interrupted run, leaves the filesystem that an uninterrupted
\* run from the original state leaves.
C8_InterruptRecovery ==
    /\ pc = "interrupted" =>
          \A k \in 1..NumFormats :
              /\ k < i => Rendered(k)
              /\ (k > i \/ (k = i /\ intAt = "loop")) =>
                    /\ PathOf(k) \in DOMAIN fs <=> PathOf(k) \in DOMAIN start
                    /\ PathOf(k) \in DOMAIN fs => fs[PathOf(k)] = start[PathOf(k)]
    /\ (Ended /\ run = 1) => fs = RunFrom(fs0, 1)
    /\ (Ended /\ prevPc = "interrupted") => fs = RunFrom(fs0, 1)

C8_Witness ==
    /\ pc = "done"
    /\ prevPc = "interrupted"
    /\ \E k \in 1..NumFormats : PathOf(k) \in DOMAIN start /\ start[PathOf(k)] = << >>
    /\ \E k \in 1..NumFormats : PathOf(k) \notin DOMAIN start

C10_InvalidDirFatal ==
    dirState # "dir" =>
        /\ fs = fs0
        /\ pc \notin {"opened", "done"}
        /\ pc = "failed" => exitStatus = "1" /\ i = 1 /\ Len(stderr) = 1

C10_Witness ==
    /\ dirState = "missing"
    /\ pc = "failed"
    /\ run = 1

=============================================================================
